---- MODULE Spec2Model ----
(***************************************************************************)
(* The patch sampler of TTASR (tta_data.py): DataGenerator, the            *)
(* single-image sequence, and DataGenerator_ALLIMG, the multi-image        *)
(* sequence.                                                               *)
(*                                                                         *)
(* An image array is modelled by the window it is of the file it was read  *)
(* from: [name, tex, r0, c0, rows, cols] is the rows x cols sub-grid of    *)
(* file `name` whose first pixel is the file's pixel (r0, c0).  Two        *)
(* arrays hold the same pixels iff these records are equal.  tex is the    *)
(* class of the image's content, which is all the gradient maps see.       *)
(*                                                                         *)
(* numpy's process-wide generator is the variable rng: a state in          *)
(* 0..RngMod-1, a deterministic step, and the uniform draw u/RngMod read   *)
(* off the state.  scale_factor_downsampler is the exact rational          *)
(* <<p, q>> = p/q.                                                         *)
(***************************************************************************)
EXTENDS Integers, Sequences, FiniteSets, TLC

VARIABLES
    conf,    \* the configuration handed to the constructors
    files,   \* os.listdir(conf.input_dir): the image files, in listing order
    rng,     \* state of numpy's global random generator
    ds,      \* the dataset object last constructed (or None, or the error raised)
    out,     \* what the last __getitem__ returned or raised
    memo,    \* history: the first access made to ds since it was constructed
    first    \* history: the index sequences of the first dataset constructed

vars == <<conf, files, rng, ds, out, memo, first>>

(***************************** bounds ***************************************)
MaxImgs == 2
MaxIters == 2
RngMod == 16

(************************* program constants ********************************)
Border == 10

None == [kind |-> "none"]

Min(a, b) == IF a < b THEN a ELSE b
Max(a, b) == IF a > b THEN a ELSE b

(************************* the files on disk ********************************)
\* Sizes are those of the file: shaved at ratio 2 they are 8 x 6, 6 x 8 and
\* 4 x 4 (at ratio 4, 8 x 4, 4 x 8 and 4 x 4).
Catalogue ==
    { [name |-> "a", h |-> 28, w |-> 27, tex |-> 1],
      [name |-> "b", h |-> 26, w |-> 28, tex |-> 0],
      [name |-> "c", h |-> 24, w |-> 25, tex |-> 1] }

Names == { f.name : f \in Catalogue }

FileOf(name) == CHOOSE f \in Catalogue : f.name = name

\* Listings: sequences of distinct file names, at most MaxImgs long.
Listings ==
    { l \in UNION { [1..k -> Names] : k \in 0..MaxImgs } :
        \A i, j \in DOMAIN l : i # j => l[i] # l[j] }

Scales == { <<1, 2>>, <<1, 4>>, <<2, 5>> }
CropSizes == { 4, 6 }
BatchSizes == { 1, 2 }

(*********************** Python and numpy semantics *************************)
\* A slice bound normalised against a length n, as Python does.
SliceBound(n, i) == IF i < 0 THEN Max(n + i, 0) ELSE Min(i, n)

\* x[a:b] on a length n: first index and length.
Slice(n, a, b) ==
    LET lo == SliceBound(n, a)
        hi == SliceBound(n, b)
    IN  [lo |-> lo, len |-> Max(hi - lo, 0)]

SliceRows(img, a, b) ==
    LET s == Slice(img.rows, a, b)
    IN  [img EXCEPT !.r0 = @ + s.lo, !.rows = s.len]

SliceCols(img, a, b) ==
    LET s == Slice(img.cols, a, b)
    IN  [img EXCEPT !.c0 = @ + s.lo, !.cols = s.len]

\* int(1 / scale_factor) and int(n * scale_factor).
IntRecip(sfd) == sfd[2] \div sfd[1]
IntScale(n, sfd) == (n * sfd[1]) \div sfd[2]

\* One step of the generator; the state reached is the draw.
RngStep(s) == (5 * s + 3) % RngMod

RECURSIVE RngAdvance(_, _)
RngAdvance(s, k) == IF k = 0 THEN s ELSE RngAdvance(RngStep(s), k - 1)

(************ the collaborators outside tta_data.py (tta_util, imresize) ****)
\* imresize's output length along one axis for an input length n.
ResizedDim(n, sfd) == (n * sfd[1] + sfd[2] - 1) \div sfd[2]

\* The probability maps (create_gradient_map, create_probability_map,
\* nn_interpolation) are known by their contract only: non-negative weights
\* over the pixel indices of the map, summing to one.  A flat image (tex 0)
\* weighs every pixel alike.  A textured one (tex 1) has its detail in the
\* lower half at full resolution (the big map: weight 0 above row rows/2,
\* equal weights from there on) and in the right half once it was resized
\* (the small map: weight 0 left of column cols/2).
\*
\* Searchsorted is cdf.searchsorted(u, side = 'right') for the draw
\* u/RngMod: the first index whose cumulative weight exceeds the draw, i.e.
\* the floor(u * W / RngMod)-th of the W pixels that carry weight.
Searchsorted(pm, u) ==
    IF pm.tex = 0 THEN (u * pm.len) \div RngMod
    ELSE IF pm.big
    THEN LET skip == (pm.rows \div 2) * pm.cols
         IN  skip + (u * (pm.len - skip)) \div RngMod
    ELSE LET col0 == pm.cols \div 2
             wcols == pm.cols - col0
             j == (u * (pm.rows * wcols)) \div RngMod
         IN  (j \div wcols) * pm.cols + col0 + (j % wcols)

(*************************** numpy.random ***********************************)
\* np.random.choice(a = len(p), size = size, p = p) from generator state s:
\* `size` draws, one step of the generator each; sample i is read off the
\* state after i steps.
np_random_choice(pm, size, s) ==
    [samples |-> [i \in 1..size |-> Searchsorted(pm, RngAdvance(s, i))],
     rng |-> RngAdvance(s, size)]

(****************************** tta_data.py *********************************)
\* read_image: the whole file as an array.
read_image(path) ==
    LET f == FileOf(path)
    IN  [name |-> f.name, tex |-> f.tex, r0 |-> 0, c0 |-> 0, rows |-> f.h, cols |-> f.w]

\* A faulty shave_edges that trims the leading rows and columns instead of
\* the trailing ones; C7 must tell it from the code.
shave_edges_leading(img, scale_factor, real_image) ==
    LET a == IF ~real_image
             THEN SliceCols(SliceRows(img, Border, -Border), Border, -Border)
             ELSE img
        sf == IntRecip(scale_factor)
        b == IF a.rows % sf > 0 THEN SliceRows(a, a.rows % sf, a.rows) ELSE a
    IN  IF a.cols % sf > 0 THEN SliceCols(b, a.cols % sf, a.cols) ELSE b

\* DataGenerator.shave_edges, on the array it is given.
shave_edges(img, scale_factor, real_image) ==
    LET a == IF ~real_image
             THEN SliceCols(SliceRows(img, Border, -Border), Border, -Border)
             ELSE img
        sf == IntRecip(scale_factor)
        b == IF a.rows % sf > 0 THEN SliceRows(a, 0, -(a.rows % sf)) ELSE a
    IN  IF a.cols % sf > 0 THEN SliceCols(b, 0, -(a.cols % sf)) ELSE b

\* The same steps, written inline in DataGenerator_ALLIMG.__init__.
shave_inline(img, scale_factor) ==
    LET a == SliceCols(SliceRows(img, Border, -Border), Border, -Border)
        sf == IntRecip(scale_factor)
        b == IF a.rows % sf > 0 THEN SliceRows(a, 0, -(a.rows % sf)) ELSE a
    IN  IF a.cols % sf > 0 THEN SliceCols(b, 0, -(a.cols % sf)) ELSE b

\* create_prob_maps: the big map over the image itself, the small one over
\* the resized image blown up again by int(1 / scale_factor).
create_prob_maps(img, scale_factor) ==
    LET sf == IntRecip(scale_factor)
        up_rows == ResizedDim(img.rows, scale_factor) * sf
        up_cols == ResizedDim(img.cols, scale_factor) * sf
    IN  [big |-> [len |-> img.rows * img.cols, rows |-> img.rows, cols |-> img.cols, tex |-> img.tex, big |-> TRUE],
         sml |-> [len |-> up_rows * up_cols, rows |-> up_rows, cols |-> up_cols, tex |-> img.tex, big |-> FALSE]]

\* A faulty make_list_of_crop_indices that draws num_iters indices, one
\* per batch instead of one per sample; C5 must tell it from the code.
make_list_of_crop_indices_per_batch(c, img, s) ==
    LET iterations == c.num_iters
        maps == create_prob_maps(img, c.scale_factor_downsampler)
        g == np_random_choice(maps.sml, iterations, s)
        d == np_random_choice(maps.big, iterations, g.rng)
    IN  [g |-> g.samples, d |-> d.samples, rng |-> d.rng]

\* make_list_of_crop_indices (both classes): G's indices are drawn first,
\* from the small map, then D's from the big one.
make_list_of_crop_indices(c, img, s) ==
    LET iterations == c.num_iters * c.batch_size
        maps == create_prob_maps(img, c.scale_factor_downsampler)
        g == np_random_choice(maps.sml, iterations, s)
        d == np_random_choice(maps.big, iterations, g.rng)
    IN  [g |-> g.samples, d |-> d.samples, rng |-> d.rng]

\* A constructor that does not seed the generator; C10 must tell it from
\* the code.
np_random_seed_kept(s) == s

\* np.random.seed(0), the first statement of both constructors.
np_random_seed(s) == 0

\* DataGenerator.__init__: the object built and the generator state left.
\* Image.open raises for a path that names no file, np.random.choice for
\* an empty map; the seed is set before either.
DataGenerator_init(c, s) ==
    LET s0 == np_random_seed(s)
    IN  IF c.input_image_path \notin Names
        THEN [obj |-> [kind |-> "error", error |-> "FileNotFoundError"], rng |-> s0]
        ELSE LET img == shave_edges(read_image(c.input_image_path),
                                    c.scale_factor_downsampler, FALSE)
                 l == make_list_of_crop_indices(c, img, s0)
             IN  IF img.rows * img.cols = 0
                 THEN [obj |-> [kind |-> "error", error |-> "ValueError"], rng |-> s0]
                 ELSE [obj |-> [kind |-> "single", conf |-> c,
                                g_input_shape |-> c.input_crop_size,
                                d_input_shape |-> IntScale(c.input_crop_size,
                                                           c.scale_factor_downsampler),
                                num_imgs |-> 1,
                                all_img |-> <<img>>,
                                in_rows |-> <<img.rows>>,
                                in_cols |-> <<img.cols>>,
                                crop_indices_for_g |-> <<l.g>>,
                                crop_indices_for_d |-> <<l.d>>],
                       rng |-> l.rng]

\* A faulty loop that seeds the generator again before every image; C9's
\* amended statement must tell it from the code.
RECURSIVE ALLIMG_loop_reseeded(_, _, _, _, _)
ALLIMG_loop_reseeded(c, listing, n, obj, s) ==
    IF n > Len(listing) THEN [obj |-> obj, rng |-> s]
    ELSE LET img == shave_inline(read_image(listing[n]), c.scale_factor_downsampler)
             l == make_list_of_crop_indices(c, img, np_random_seed(s))
         IN  IF img.rows * img.cols = 0
             THEN [obj |-> [kind |-> "error", error |-> "ValueError"], rng |-> s]
             ELSE ALLIMG_loop_reseeded(c, listing, n + 1,
                     [obj EXCEPT !.all_img = Append(@, img),
                                 !.in_rows = Append(@, img.rows),
                                 !.in_cols = Append(@, img.cols),
                                 !.crop_indices_for_g = Append(@, l.g),
                                 !.crop_indices_for_d = Append(@, l.d)],
                     l.rng)

\* The loop of DataGenerator_ALLIMG.__init__ over the listing, from image n.
RECURSIVE ALLIMG_loop(_, _, _, _, _)
ALLIMG_loop(c, listing, n, obj, s) ==
    IF n > Len(listing) THEN [obj |-> obj, rng |-> s]
    ELSE LET img == shave_inline(read_image(listing[n]), c.scale_factor_downsampler)
             l == make_list_of_crop_indices(c, img, s)
         IN  IF img.rows * img.cols = 0
             THEN [obj |-> [kind |-> "error", error |-> "ValueError"], rng |-> s]
             ELSE ALLIMG_loop(c, listing, n + 1,
                     [obj EXCEPT !.all_img = Append(@, img),
                                 !.in_rows = Append(@, img.rows),
                                 !.in_cols = Append(@, img.cols),
                                 !.crop_indices_for_g = Append(@, l.g),
                                 !.crop_indices_for_d = Append(@, l.d)],
                     l.rng)

\* DataGenerator_ALLIMG.__init__.
ALLIMG_init(c, listing, s) ==
    ALLIMG_loop(c, listing, 1,
        [kind |-> "multi", conf |-> c,
         g_input_shape |-> c.input_crop_size,
         d_input_shape |-> IntScale(c.input_crop_size, c.scale_factor_downsampler),
         num_imgs |-> Len(listing),
         all_img |-> <<>>, in_rows |-> <<>>, in_cols |-> <<>>,
         crop_indices_for_g |-> <<>>, crop_indices_for_d |-> <<>>],
        np_random_seed(s))

\* __len__ (both classes).
DsLen(d) == d.conf.num_iters * d.conf.batch_size

Built(d) == d.kind \in {"single", "multi"}

\* A faulty get_top_left without the upper clamp min(., in - size); C1
\* must tell it from the code.
get_top_left_unclamped(d, size, for_g, idx, n) ==
    LET indices == IF for_g THEN d.crop_indices_for_g[n] ELSE d.crop_indices_for_d[n]
    IN  IF idx >= Len(indices) THEN [raised |-> "IndexError"]
        ELSE LET center == indices[idx + 1]
                 row == center \div d.in_cols[n]
                 col == center % d.in_cols[n]
                 top == Max(0, row - size \div 2)
                 left == Max(0, col - size \div 2)
             IN  [raised |-> "", top |-> top - (top % 2), left |-> left - (left % 2)]

\* A faulty get_top_left that does not round the origin down to an even
\* number; C2's amended statement must tell it from the code.
get_top_left_odd(d, size, for_g, idx, n) ==
    LET indices == IF for_g THEN d.crop_indices_for_g[n] ELSE d.crop_indices_for_d[n]
    IN  IF idx >= Len(indices) THEN [raised |-> "IndexError"]
        ELSE LET center == indices[idx + 1]
                 row == center \div d.in_cols[n]
                 col == center % d.in_cols[n]
                 top == Min(Max(0, row - size \div 2), d.in_rows[n] - size)
                 left == Min(Max(0, col - size \div 2), d.in_cols[n] - size)
             IN  [raised |-> "", top |-> top, left |-> left]

\* A faulty get_top_left that wraps the index around the sequence instead
\* of raising; C6 must tell it from the code.
get_top_left_wrapped(d, size, for_g, idx, n) ==
    LET indices == IF for_g THEN d.crop_indices_for_g[n] ELSE d.crop_indices_for_d[n]
        center == indices[(idx % Len(indices)) + 1]
        row == center \div d.in_cols[n]
        col == center % d.in_cols[n]
        top == Min(Max(0, row - size \div 2), d.in_rows[n] - size)
        left == Min(Max(0, col - size \div 2), d.in_cols[n] - size)
    IN  [raised |-> "", top |-> top - (top % 2), left |-> left - (left % 2)]

\* get_top_left (both classes; the single-image one has n = 1): indexing
\* the numpy array past its end raises IndexError.
get_top_left(d, size, for_g, idx, n) ==
    LET indices == IF for_g THEN d.crop_indices_for_g[n] ELSE d.crop_indices_for_d[n]
    IN  IF idx >= Len(indices) THEN [raised |-> "IndexError"]
        ELSE LET center == indices[idx + 1]
                 row == center \div d.in_cols[n]
                 col == center % d.in_cols[n]
                 top == Min(Max(0, row - size \div 2), d.in_rows[n] - size)
                 left == Min(Max(0, col - size \div 2), d.in_cols[n] - size)
             IN  [raised |-> "", top |-> top - (top % 2), left |-> left - (left % 2)]

\* The slice of next_crop: image n's rows top:top+size, columns left:left+size.
crop_of(d, size, for_g, idx, n) ==
    LET tl == get_top_left(d, size, for_g, idx, n)
    IN  IF tl.raised # "" THEN tl
        ELSE [raised |-> "", top |-> tl.top, left |-> tl.left,
              im |-> SliceCols(SliceRows(d.all_img[n], tl.top, tl.top + size),
                               tl.left, tl.left + size)]

\* A next_crop with the noise of the commented-out lines of the source put
\* back: `crop_im += np.random.randn(...)` draws from the generator and
\* writes through the slice into the input image. C4 must tell it from the
\* code.
next_crop_noise(d, s, for_g, idx) ==
    LET size == IF for_g THEN d.g_input_shape ELSE d.d_input_shape
        crop == crop_of(d, size, for_g, idx, 1)
    IN  IF for_g \/ crop.raised # "" THEN [crop |-> crop, obj |-> d, rng |-> s]
        ELSE [crop |-> crop,
              obj |-> [d EXCEPT !.all_img[1].tex = 1 - @],
              rng |-> RngStep(s)]

\* DataGenerator.next_crop: the crop, and the object and the generator as
\* the call leaves them (it writes to neither).
next_crop(d, s, for_g, idx) ==
    LET size == IF for_g THEN d.g_input_shape ELSE d.d_input_shape
    IN  [crop |-> crop_of(d, size, for_g, idx, 1), obj |-> d, rng |-> s]

\* DataGenerator.__getitem__: G's crop, then D's, then the bicubic
\* reference of D's (its shape: imresize by int(1 / scale_factor)).
getitem(d, s, idx) ==
    LET g == next_crop(d, s, TRUE, idx)
        dd == next_crop(g.obj, g.rng, FALSE, idx)
        sf == IntRecip(d.conf.scale_factor_downsampler)
    IN  IF g.crop.raised # ""
        THEN [res |-> [kind |-> "single", idx |-> idx, raised |-> g.crop.raised],
              obj |-> g.obj, rng |-> g.rng]
        ELSE IF dd.crop.raised # ""
        THEN [res |-> [kind |-> "single", idx |-> idx, raised |-> dd.crop.raised],
              obj |-> dd.obj, rng |-> dd.rng]
        ELSE [res |-> [kind |-> "single", idx |-> idx, raised |-> "",
                       HR |-> <<g.crop>>, LR |-> <<dd.crop>>,
                       LR_bicubic |-> <<dd.crop.im.rows * sf, dd.crop.im.cols * sf>>],
              obj |-> dd.obj, rng |-> dd.rng]

\* np.array(all_crop_img) is a (K, size, size, 3) array only when the K
\* crops have one shape and K > 0; np.transpose(_, (0, 3, 1, 2)) raises
\* ValueError for anything else.
Stackable(crops) ==
    /\ Len(crops) > 0
    /\ \A i, j \in DOMAIN crops :
          crops[i].im.rows = crops[j].im.rows /\ crops[i].im.cols = crops[j].im.cols

\* The loop of DataGenerator_ALLIMG.next_crop: image n's crop is appended
\* to those of the images before it; an IndexError ends the loop.
RECURSIVE ALLIMG_crops(_, _, _, _, _, _)
ALLIMG_crops(d, size, for_g, idx, n, all_crop_img) ==
    IF n > d.num_imgs THEN [raised |-> "", crops |-> all_crop_img]
    ELSE LET crop_im == crop_of(d, size, for_g, idx, n)
         IN  IF crop_im.raised # "" THEN [raised |-> crop_im.raised, crops |-> <<>>]
             ELSE ALLIMG_crops(d, size, for_g, idx, n + 1, Append(all_crop_img, crop_im))

\* DataGenerator_ALLIMG.next_crop: one crop per image, in listing order.
ALLIMG_next_crop(d, s, for_g, idx) ==
    LET size == IF for_g THEN d.g_input_shape ELSE d.d_input_shape
        all == ALLIMG_crops(d, size, for_g, idx, 1, <<>>)
    IN  [raised |-> all.raised, crops |-> all.crops, obj |-> d, rng |-> s]

\* DataGenerator_ALLIMG.__getitem__.
ALLIMG_getitem(d, s, idx) ==
    LET g == ALLIMG_next_crop(d, s, TRUE, idx)
        dd == ALLIMG_next_crop(g.obj, g.rng, FALSE, idx)
    IN  IF g.raised # ""
        THEN [res |-> [kind |-> "multi", idx |-> idx, raised |-> g.raised],
              obj |-> g.obj, rng |-> g.rng]
        ELSE IF dd.raised # ""
        THEN [res |-> [kind |-> "multi", idx |-> idx, raised |-> dd.raised],
              obj |-> dd.obj, rng |-> dd.rng]
        ELSE IF ~Stackable(g.crops) \/ ~Stackable(dd.crops)
        THEN [res |-> [kind |-> "multi", idx |-> idx, raised |-> "ValueError"],
              obj |-> dd.obj, rng |-> dd.rng]
        ELSE [res |-> [kind |-> "multi", idx |-> idx, raised |-> "",
                       HR |-> g.crops, LR |-> dd.crops, LR_bicubic |-> <<>>],
              obj |-> dd.obj, rng |-> dd.rng]

(******************************* the machine ********************************)
Confs ==
    [input_crop_size : CropSizes, scale_factor_downsampler : Scales,
     num_iters : 1..MaxIters, batch_size : BatchSizes,
     input_image_path : Names \cup {""}]

\* The generator starts wherever the process left it; input_image_path is
\* the first file listed (get_config joins input_dir and a listed name; the
\* listings put every file first), or still the default '' when the
\* directory is empty.
Init ==
    /\ files \in Listings
    /\ conf \in Confs
    /\ conf.input_image_path = IF files = <<>> THEN "" ELSE files[1]
    /\ rng \in 0..(RngMod - 1)
    /\ ds = None
    /\ out = None
    /\ memo = None
    /\ first = None

\* History: the index sequences of the first dataset built, and whether a
\* dataset of its kind was built again from a generator that was not at
\* the seed state.
Record(obj) ==
    IF ~Built(obj) THEN first
    ELSE IF first = None
    THEN [kind |-> obj.kind, g |-> obj.crop_indices_for_g,
          d |-> obj.crop_indices_for_d, again |-> FALSE]
    ELSE IF first.kind = obj.kind /\ rng # 0
    THEN [first EXCEPT !.again = TRUE]
    ELSE first

\* History: the first sample ds returned, and whether another index was
\* accessed since.
Remember(res) ==
    IF memo = None
    THEN IF res.raised = "" THEN [kind |-> "first", res |-> res, later |-> FALSE] ELSE memo
    ELSE IF res.idx # memo.res.idx THEN [memo EXCEPT !.later = TRUE]
    ELSE memo

\* create_dataset(conf)
create_dataset ==
    \E r \in {DataGenerator_init(conf, rng)} :
        /\ ds' = r.obj
        /\ rng' = r.rng
        /\ first' = Record(r.obj)
        /\ out' = None
        /\ memo' = None
        /\ UNCHANGED <<conf, files>>

\* create_dataset_for_image_agnostic_gdn(conf)
create_dataset_for_image_agnostic_gdn ==
    \E r \in {ALLIMG_init(conf, files, rng)} :
        /\ ds' = r.obj
        /\ rng' = r.rng
        /\ first' = Record(r.obj)
        /\ out' = None
        /\ memo' = None
        /\ UNCHANGED <<conf, files>>

\* dataset[idx] on the single-image sequence, from the loader or any caller.
GetItem(idx) ==
    /\ ds.kind = "single"
    /\ idx <= DsLen(ds)
    /\ \E r \in {getitem(ds, rng, idx)} :
           /\ out' = r.res
           /\ ds' = r.obj
           /\ rng' = r.rng
           /\ memo' = Remember(r.res)
    /\ UNCHANGED <<conf, files, first>>

\* dataset[idx] on the multi-image sequence.
GetItemAll(idx) ==
    /\ ds.kind = "multi"
    /\ idx <= DsLen(ds)
    /\ \E r \in {ALLIMG_getitem(ds, rng, idx)} :
           /\ out' = r.res
           /\ ds' = r.obj
           /\ rng' = r.rng
           /\ memo' = Remember(r.res)
    /\ UNCHANGED <<conf, files, first>>

\* Any other user of numpy's global generator draws from it.
OtherDraw ==
    /\ rng' = RngStep(rng)
    /\ UNCHANGED <<conf, files, ds, out, memo, first>>

Next ==
    \/ create_dataset
    \/ create_dataset_for_image_agnostic_gdn
    \/ \E idx \in 0..(2 * MaxIters) : GetItem(idx)
    \/ \E idx \in 0..(2 * MaxIters) : GetItemAll(idx)

Spec == Init /\ [][Next]_vars

\* The same program in a process whose other code draws from the generator
\* between constructions.
NextEnv ==
    \/ create_dataset
    \/ create_dataset_for_image_agnostic_gdn
    \/ OtherDraw

SpecEnv == Init /\ [][NextEnv]_vars

(******************************* the claims *********************************)
Abs(x) == IF x < 0 THEN -x ELSE x

Even(x) == x % 2 = 0

\* The crop size fits image n: it is no larger than either dimension.
Fits(d, n) == d.g_input_shape <= d.in_rows[n] /\ d.g_input_shape <= d.in_cols[n]

\* 1 / scale_factor_downsampler is an integer.
IntegerRatio(c) == c.scale_factor_downsampler[2] % c.scale_factor_downsampler[1] = 0

SizeOf(d, for_g) == IF for_g THEN d.g_input_shape ELSE d.d_input_shape

\* C1: whenever the crop size fits an image, get_top_left returns for
\* either branch and every index in range an origin with
\* 0 <= top <= in_rows - size and 0 <= left <= in_cols - size, both even,
\* and raises nothing; on an axis whose length equals the patch size the
\* origin is 0.
C1_OriginInBounds ==
    Built(ds) =>
        \A n \in 1..ds.num_imgs : Fits(ds, n) =>
            \A for_g \in BOOLEAN : \A idx \in 0..(DsLen(ds) - 1) :
                LET size == SizeOf(ds, for_g)
                    tl == get_top_left(ds, size, for_g, idx, n)
                IN  /\ tl.raised = ""
                    /\ 0 <= tl.top /\ tl.top <= ds.in_rows[n] - size
                    /\ 0 <= tl.left /\ tl.left <= ds.in_cols[n] - size
                    /\ Even(tl.top) /\ Even(tl.left)
                    /\ (ds.in_rows[n] = size => tl.top = 0)
                    /\ (ds.in_cols[n] = size => tl.left = 0)

\* An access returned a G crop of an image whose width is exactly the patch
\* size: its left is 0 while its top is not.
C1_Witness ==
    /\ out.kind = "single" /\ out.raised = ""
    /\ Fits(ds, 1)
    /\ ds.in_cols[1] = ds.g_input_shape
    /\ out.HR[1].left = 0
    /\ out.HR[1].top > 0

\* Two origins on one axis are co-located within half the low-res patch
\* size on some common grid: the image's own, the low-res one (G's origin
\* scaled down) or the high-res one (D's origin scaled up).
Colocated(d, g, dd) ==
    LET sf == IntRecip(d.conf.scale_factor_downsampler)
    IN  \/ 2 * Abs(g - dd) <= d.d_input_shape
        \/ 2 * Abs(IntScale(g, d.conf.scale_factor_downsampler) - dd) <= d.d_input_shape
        \/ 2 * Abs(g - dd * sf) <= d.d_input_shape

\* C2 as stated: the G and the D origin of one access are co-located
\* within d_size / 2 on each axis.
C2_Colocated ==
    (out.kind # "none" /\ out.raised = "") =>
        \A n \in DOMAIN out.HR : Fits(ds, n) =>
            /\ Colocated(ds, out.HR[n].top, out.LR[n].top)
            /\ Colocated(ds, out.HR[n].left, out.LR[n].left)

\* What the largest distance between the two origins on an axis of length
\* dim is: dim - d_size when the G crop fits, g_size - d_size + 1 when not.
Apart(d, dim) ==
    IF d.g_input_shape <= dim THEN dim - d.d_input_shape
    ELSE d.g_input_shape - d.d_input_shape + 1

\* C2, amended: the G and the D origin of one access are both even and, on
\* each axis, differ by at most the image dimension minus d_size (by at
\* most g_size - d_size + 1 when the G crop does not fit the image).
C2_OriginsIndependent ==
    (out.kind # "none" /\ out.raised = "") =>
        \A n \in DOMAIN out.HR :
            /\ Even(out.HR[n].top) /\ Even(out.LR[n].top)
            /\ Even(out.HR[n].left) /\ Even(out.LR[n].left)
            /\ Abs(out.HR[n].top - out.LR[n].top) <= Apart(ds, ds.in_rows[n])
            /\ Abs(out.HR[n].left - out.LR[n].left) <= Apart(ds, ds.in_cols[n])

\* An access with a fitting crop size whose two origins are further apart
\* than d_size / 2 on every common grid.
C2_Witness ==
    /\ out.kind = "single" /\ out.raised = ""
    /\ Fits(ds, 1)
    /\ ~Colocated(ds, out.HR[1].top, out.LR[1].top)

\* Every crop of a sample has the size asked for.
FullSize(d, res) ==
    \A n \in DOMAIN res.HR :
        /\ res.HR[n].im.rows = d.g_input_shape /\ res.HR[n].im.cols = d.g_input_shape
        /\ res.LR[n].im.rows = d.d_input_shape /\ res.LR[n].im.cols = d.d_input_shape

\* C3 as stated: a sequence is only ever constructed from a configuration
\* whose 1 / scale_factor_downsampler is an integer and whose crop size
\* fits the image(s), and no access yields a patch smaller than asked for.
C3_InvalidConfigurationRejected ==
    /\ Built(ds) => IntegerRatio(ds.conf) /\ \A n \in 1..ds.num_imgs : Fits(ds, n)
    /\ (out.kind # "none" /\ out.raised = "") => FullSize(ds, out)

C5_Length ==
    Built(ds) =>
        /\ DsLen(ds) = conf.num_iters * conf.batch_size
        /\ Len(ds.crop_indices_for_g) = ds.num_imgs
        /\ Len(ds.crop_indices_for_d) = ds.num_imgs
        /\ \A n \in 1..ds.num_imgs :
              /\ Len(ds.crop_indices_for_g[n]) = conf.num_iters * conf.batch_size
              /\ Len(ds.crop_indices_for_d[n]) = conf.num_iters * conf.batch_size

\* A two-image sequence of a valid configuration with batch_size 2 and the
\* largest num_iters.
C5_Witness ==
    /\ ds.kind = "multi" /\ ds.num_imgs = 2
    /\ IntegerRatio(conf) /\ \A n \in 1..ds.num_imgs : Fits(ds, n)
    /\ conf.batch_size = 2 /\ conf.num_iters = MaxIters
    /\ Len(ds.crop_indices_for_d[2]) = 2 * MaxIters

\* C6: an access at an index >= len(sequence) raises and returns no sample;
\* what it raises is IndexError (in the multi-image sequence too, when it
\* holds an image).
C6_OutOfRangeRaises ==
    (out.kind # "none" /\ out.idx >= DsLen(ds)) =>
        /\ out.raised # ""
        /\ "HR" \notin DOMAIN out /\ "LR" \notin DOMAIN out
        /\ (out.kind = "single" \/ ds.num_imgs > 0) => out.raised = "IndexError"

\* The single-image sequence of batch_size 2 was accessed at its length.
C6_Witness ==
    /\ out.kind = "single" /\ conf.batch_size = 2
    /\ out.idx = conf.num_iters * 2
    /\ out.raised = "IndexError"

\* C7: with an integer ratio sf = 1 / scale_factor, the preprocessed image
\* of an H x W file is the sub-grid starting at (10, 10) of height
\* (H-20) - ((H-20) mod sf) and width (W-20) - ((W-20) mod sf), both
\* multiples of sf, in both classes; in_rows and in_cols are its sizes.
C7_Shaved ==
    (Built(ds) /\ IntegerRatio(ds.conf)) =>
        \A n \in 1..ds.num_imgs :
            LET im == ds.all_img[n]
                f == FileOf(im.name)
                sf == ds.conf.scale_factor_downsampler[2] \div ds.conf.scale_factor_downsampler[1]
            IN  /\ im.r0 = 10 /\ im.c0 = 10
                /\ im.rows = (f.h - 20) - ((f.h - 20) % sf)
                /\ im.cols = (f.w - 20) - ((f.w - 20) % sf)
                /\ im.rows % sf = 0 /\ im.cols % sf = 0
                /\ ds.in_rows[n] = im.rows /\ ds.in_cols[n] = im.cols

\* A single-image sequence at ratio 4 whose image lost trailing rows to
\* the ratio and kept every column between the borders.
C7_Witness ==
    /\ ds.kind = "single"
    /\ ds.conf.scale_factor_downsampler = <<1, 4>>
    /\ ds.all_img[1].rows < FileOf(ds.all_img[1].name).h - 20
    /\ ds.all_img[1].cols = FileOf(ds.all_img[1].name).w - 20

\* C8 as stated: every access (at an index in range) to the multi-image
\* sequence over K images returns HR and LR batches of leading dimension K
\* whose n-th crop is sliced from image n at the origin get_top_left gives
\* for image n, which lies inside image n.
C8_BatchPerImage ==
    (out.kind = "multi" /\ out.idx < DsLen(ds)) =>
        /\ out.raised = ""
        /\ Len(out.HR) = Len(files) /\ Len(out.LR) = Len(files)
        /\ \A n \in 1..Len(files) :
              /\ out.HR[n].im.name = files[n] /\ out.LR[n].im.name = files[n]
              /\ out.HR[n] = crop_of(ds, ds.g_input_shape, TRUE, out.idx, n)
              /\ out.LR[n] = crop_of(ds, ds.d_input_shape, FALSE, out.idx, n)
              /\ 0 <= out.HR[n].top /\ out.HR[n].top <= ds.in_rows[n] - ds.g_input_shape
              /\ 0 <= out.HR[n].left /\ out.HR[n].left <= ds.in_cols[n] - ds.g_input_shape
              /\ 0 <= out.LR[n].top /\ out.LR[n].top <= ds.in_rows[n] - ds.d_input_shape
              /\ 0 <= out.LR[n].left /\ out.LR[n].left <= ds.in_cols[n] - ds.d_input_shape

\* The index sequences the single-image sequence builds for file `name`
\* under configuration c.
SingleOf(c, name) == DataGenerator_init([c EXCEPT !.input_image_path = name], rng).obj

\* C9 as stated: the G and D index sequences the multi-image sequence
\* builds for an image are those the single-image sequence builds for that
\* image alone.
C9_SameAsSingle ==
    ds.kind = "multi" =>
        \A n \in 1..ds.num_imgs :
            /\ ds.crop_indices_for_g[n] = SingleOf(ds.conf, files[n]).crop_indices_for_g[1]
            /\ ds.crop_indices_for_d[n] = SingleOf(ds.conf, files[n]).crop_indices_for_d[1]

\* C9, amended: the sequences built for the image at position n of the
\* listing (n = 1 first) depend on that image, the configuration and n
\* only: they are what the single-image construction draws for that image
\* once the seeded generator has made the 2 * (n-1) * len draws of the
\* images before it; the image itself is preprocessed as the single-image
\* sequence preprocesses it, and for the first image the sequences are the
\* single-image ones.
C9_SameUpToGenerator ==
    ds.kind = "multi" =>
        \A n \in 1..ds.num_imgs :
            LET img == shave_edges(read_image(files[n]),
                                   ds.conf.scale_factor_downsampler, FALSE)
                start == RngAdvance(np_random_seed(rng), 2 * (n - 1) * DsLen(ds))
                l == make_list_of_crop_indices(ds.conf, img, start)
            IN  /\ ds.all_img[n] = img
                /\ ds.crop_indices_for_g[n] = l.g
                /\ ds.crop_indices_for_d[n] = l.d
                /\ n = 1 =>
                     /\ l.g = SingleOf(ds.conf, files[n]).crop_indices_for_g[1]
                     /\ l.d = SingleOf(ds.conf, files[n]).crop_indices_for_d[1]

\* A two-image sequence whose second image got other G indices than the
\* single-image sequence builds for it.
C9_Witness ==
    /\ ds.kind = "multi" /\ ds.num_imgs = 2
    /\ ds.crop_indices_for_g[2] # SingleOf(ds.conf, files[2]).crop_indices_for_g[1]

\* C10: a sequence constructed again from the same image(s) and
\* configuration has the G and D index sequences of the first one built,
\* whatever the generator's state before either construction; the G
\* indices of the first image are the first len draws from seed 0 and its D
\* indices the next len draws.
C10_Deterministic ==
    (Built(ds) /\ first.kind = ds.kind) =>
        /\ ds.crop_indices_for_g = first.g
        /\ ds.crop_indices_for_d = first.d
        /\ ds.num_imgs > 0 =>
             LET maps == create_prob_maps(ds.all_img[1], ds.conf.scale_factor_downsampler)
             IN  /\ ds.crop_indices_for_g[1] =
                        np_random_choice(maps.sml, DsLen(ds), 0).samples
                 /\ ds.crop_indices_for_d[1] =
                        np_random_choice(maps.big, DsLen(ds), RngAdvance(0, DsLen(ds))).samples

\* A sequence of the kind first built was built again, from a generator
\* that was not at the seed state.
C10_Witness ==
    /\ Built(ds) /\ first.kind = ds.kind /\ first.again
    /\ ds.num_imgs > 0

====
